---- MODULE Spec2Model ----
(***************************************************************************)
(* The contact cache of apple-mcp (ContactCache: a TTL/LRU store with a    *)
(* memory estimate and a sweeper timer) and the cache-aware query layer of *)
(* utils/contacts.ts built on it.                                          *)
(*                                                                         *)
(* Conventions                                                             *)
(*  - a JavaScript string that the code inspects character by character    *)
(*    (names, phone numbers) is a sequence of one-character strings; a     *)
(*    cache key, which the code only compares and tests for truthiness,    *)
(*    is a TLA+ string;                                                    *)
(*  - "T | null" is a sequence of length at most one: None is null,        *)
(*    Some(x) is x;                                                        *)
(*  - a Map or an object with string keys is a sequence in insertion       *)
(*    order, which is the order JavaScript iterates it in;                 *)
(*  - sizes in megabytes are kept as numbers of bytes (the value times     *)
(*    1024 * 1024, which is exact in floating point), so that              *)
(*    estimatedMemoryMB and maxMemoryMB stay integers;                     *)
(*  - hitRate, a float, is the exact fraction [num, den].                  *)
(***************************************************************************)
EXTENDS Integers, Sequences, FiniteSets, TLC

VARIABLES
    cache,         \* ContactCache.cache: the entries, in Map insertion order
    config,        \* ContactCache.config
    stats,         \* ContactCache.stats
    cleanupTimer,  \* ContactCache.cleanupTimer: a timer handle or null
    timers,        \* the runtime's armed interval timers: [id, interval]
    now,           \* Date.now()
    hung,          \* the event loop is stuck in a loop that never ends
    destroyed,     \* destroy() has been called on the store
    ret,           \* the last step: a get's key, entry found and value; a cleanup's removals
    calls,         \* the calls made to the query layer, in the order they began
    startup        \* index.ts: its module variables and what start-up has created

vars == <<cache, config, stats, cleanupTimer, timers, now, hung, destroyed, ret, calls,
         startup>>

-----------------------------------------------------------------------------
(* Bounds of the model *)

\* Date.now() runs over 0..MaxTime
MaxTime == 2
\* get is called at most MaxQueries times (stats.totalQueries is unbounded)
MaxQueries == 2

-----------------------------------------------------------------------------
(* JavaScript values *)

None == <<>>
Some(x) == <<x>>

\* if (key), if (lruKey): a string is truthy unless it is empty
TruthyKey(k) == k # ""

BytesPerMB == 1024 * 1024

RECURSIVE SumSeq(_)
SumSeq(s) == IF s = <<>> THEN 0 ELSE Head(s) + SumSeq(Tail(s))

-----------------------------------------------------------------------------
(* Contacts data: the names and phone numbers the model draws from *)

Bob == <<"B", "o", "b">>
Al == <<"A", "l">>
PhoneDashed == <<"5", "5", "5", "-", "1", "2", "3", "4">>
PhonePlain == <<"5", "5", "5", "1", "2", "3", "4">>
PhoneOther == <<"9", "9">>

\* ContactsData: { [contactName]: string[] }, as its entries in key order
Contact(n, ps) == [name |-> n, phones |-> ps]
SnapBob == <<Contact(Bob, <<PhoneDashed>>)>>
SnapBoth == <<Contact(Bob, <<PhoneDashed>>), Contact(Al, <<PhoneOther>>)>>

\* the snapshots callers of the store pass to set
Snapshots == {SnapBob, SnapBoth}
\* the cache keys callers of the store use (the empty string is falsy)
Keys == {"", "a", "b"}
\* the (snapshot, key) pairs callers of the store pass to set
SetInputs == {<<SnapBob, "a">>, <<SnapBoth, "b">>, <<SnapBob, "">>}

-----------------------------------------------------------------------------
(* ContactCache: configuration *)

DEFAULT_CONFIG ==
    [enabled |-> TRUE,
     ttlMs |-> 10 * 60 * 1000,
     maxMemoryMB |-> 50 * BytesPerMB,
     maxEntries |-> 10,
     cleanupIntervalMs |-> 60 * 1000]

\* { ...a, ...b }: the fields of b override those of a
Spread(a, b) == [f \in DOMAIN a |-> IF f \in DOMAIN b THEN b[f] ELSE a[f]]

\* A memory ceiling, in bytes, that two single-contact entries fit under and
\* a third entry, or a two-contact snapshot beside one, does not.
SmallMemory == 460
\* The time-to-live the model's stores run with, in clock units.
ShortTtl == 1

\* The partial configurations handed to updateConfig.
ConfigPatches ==
    {[enabled |-> b] : b \in BOOLEAN}
    \cup {[maxEntries |-> n] : n \in {1, 2}}
    \cup {[enabled |-> FALSE, maxEntries |-> 1]}

\* new ContactCache(config): the configurations the model constructs with
InitConfigs ==
    {Spread(DEFAULT_CONFIG, [enabled |-> b, ttlMs |-> ShortTtl, maxEntries |-> 2,
                             maxMemoryMB |-> SmallMemory, cleanupIntervalMs |-> 1]) :
        b \in BOOLEAN}

-----------------------------------------------------------------------------
(* ContactCache: the entry map *)

Has(c, k) == \E i \in 1..Len(c) : c[i].key = k
IndexOf(c, k) == CHOOSE i \in 1..Len(c) : c[i].key = k
\* Map.get
Lookup(c, k) == IF Has(c, k) THEN Some(c[IndexOf(c, k)]) ELSE None
\* Map.delete
Delete(c, k) == SelectSeq(c, LAMBDA e : e.key # k)
\* Map.set: a present key keeps its place, a new one goes last
Put(c, e) == IF Has(c, e.key) THEN [c EXCEPT ![IndexOf(c, e.key)] = e]
             ELSE Append(c, e)
KeysOf(c) == {c[i].key : i \in 1..Len(c)}

CacheEntry(k, d, t) ==
    [key |-> k, data |-> d, timestamp |-> t, accessCount |-> 1, lastAccessed |-> t]

-----------------------------------------------------------------------------
(* ContactCache: memory estimate and statistics *)

Len2(s) == 2 * Len(s)
PhonesSize(phones) == SumSeq([j \in 1..Len(phones) |-> Len2(phones[j])])

\* an estimate that leaves the names out
DataSizeOfPhones(data) ==
    SumSeq([i \in 1..Len(data) |-> PhonesSize(data[i].phones)])

\* the inner loop of estimateMemoryUsage and of shouldEvictForMemory:
\* 2 bytes per character of every name and phone number
DataSize(data) ==
    SumSeq([i \in 1..Len(data) |-> Len2(data[i].name) + PhonesSize(data[i].phones)])

EntryOverhead == 200

estimateMemoryUsage(c) ==
    SumSeq([i \in 1..Len(c) |-> DataSize(c[i].data) + EntryOverhead])

shouldEvictForMemory(c, cfg, newData) ==
    estimateMemoryUsage(c) + DataSize(newData) > cfg.maxMemoryMB

isOverMemoryLimit(c, cfg) == estimateMemoryUsage(c) > cfg.maxMemoryMB

Fraction(n, d) == [num |-> n, den |-> d]

\* (hits / totalQueries) * 100, or 0
HitRate(st) == IF st.totalQueries > 0 THEN Fraction(st.hits * 100, st.totalQueries)
               ELSE Fraction(0, 1)

\* A store is the pair of the entry map and the statistics, which the
\* methods below update together.
Store(c, st) == [cache |-> c, stats |-> st]

updateStats(s) ==
    Store(s.cache,
          [s.stats EXCEPT !.currentEntries = Len(s.cache),
                          !.estimatedMemoryMB = estimateMemoryUsage(s.cache),
                          !.hitRate = HitRate(s.stats)])

InitStats ==
    [hits |-> 0, misses |-> 0, evictions |-> 0, totalQueries |-> 0,
     currentEntries |-> 0, estimatedMemoryMB |-> 0, hitRate |-> Fraction(0, 1)]

-----------------------------------------------------------------------------
(* ContactCache: LRU eviction *)

\* the for loop of evictLeastRecentlyUsed from entry i on
RECURSIVE LruScan(_, _, _, _)
LruScan(c, i, oldestAccess, lruKey) ==
    IF i > Len(c) THEN lruKey
    ELSE IF c[i].lastAccessed < oldestAccess
         THEN LruScan(c, i + 1, c[i].lastAccessed, Some(c[i].key))
         ELSE LruScan(c, i + 1, oldestAccess, lruKey)

evictLeastRecentlyUsed(s, t) ==
    IF Len(s.cache) = 0 THEN s
    ELSE LET lruKey == LruScan(s.cache, 1, t, None)
         IN IF lruKey # None /\ TruthyKey(lruKey[1])
            THEN Store(Delete(s.cache, lruKey[1]),
                       [s.stats EXCEPT !.evictions = @ + 1])
            ELSE s

-----------------------------------------------------------------------------
(* ContactCache: get, set, invalidate *)

\* What a method leaves behind: the store and the value it returns.
Outcome(s, v) == [store |-> s, value |-> v]

Counted(st) == [st EXCEPT !.totalQueries = @ + 1]
\* a miss that is not counted
MissedUncounted(st) == st
Missed(st) == [st EXCEPT !.misses = @ + 1]

\* get with a sliding expiry: the age is taken from the last access
getSliding(s, cfg, key, t) ==
    LET st == Counted(s.stats)
        entry == Lookup(s.cache, key)
    IN IF ~cfg.enabled THEN Outcome(Store(s.cache, Missed(st)), None)
       ELSE IF entry = None THEN Outcome(Store(s.cache, Missed(st)), None)
       ELSE IF t - entry[1].lastAccessed > cfg.ttlMs
            THEN Outcome(updateStats(Store(Delete(s.cache, key),
                                           [Missed(st) EXCEPT !.evictions = @ + 1])),
                         None)
            ELSE Outcome(updateStats(Store(
                             Put(s.cache, [entry[1] EXCEPT !.accessCount = @ + 1,
                                                           !.lastAccessed = t]),
                             [st EXCEPT !.hits = @ + 1])),
                         Some(entry[1].data))

get(s, cfg, key, t) ==
    LET st == Counted(s.stats)
        entry == Lookup(s.cache, key)
    IN IF ~cfg.enabled THEN Outcome(Store(s.cache, Missed(st)), None)
       ELSE IF entry = None THEN Outcome(Store(s.cache, Missed(st)), None)
       ELSE IF t - entry[1].timestamp > cfg.ttlMs
            THEN Outcome(updateStats(Store(Delete(s.cache, key),
                                           [Missed(st) EXCEPT !.evictions = @ + 1])),
                         None)
            ELSE Outcome(updateStats(Store(
                             Put(s.cache, [entry[1] EXCEPT !.accessCount = @ + 1,
                                                           !.lastAccessed = t]),
                             [st EXCEPT !.hits = @ + 1])),
                         Some(entry[1].data))

\* set that keeps the snapshot of a key it already holds
setIfAbsent(s, cfg, data, key, t) ==
    IF ~cfg.enabled THEN s
    ELSE IF Has(s.cache, key) THEN updateStats(s)
    ELSE LET s2 == IF Len(s.cache) >= cfg.maxEntries
                   THEN evictLeastRecentlyUsed(s, t) ELSE s
         IN updateStats(Store(Put(s2.cache, CacheEntry(key, data, t)), s2.stats))

set(s, cfg, data, key, t) ==
    IF ~cfg.enabled THEN s
    ELSE LET s1 == IF shouldEvictForMemory(s.cache, cfg, data)
                   THEN evictLeastRecentlyUsed(s, t) ELSE s
             s2 == IF Len(s1.cache) >= cfg.maxEntries
                   THEN evictLeastRecentlyUsed(s1, t) ELSE s1
         IN updateStats(Store(Put(s2.cache, CacheEntry(key, data, t)), s2.stats))

\* invalidate(key?): key is None when the argument is left out
invalidate(s, key) ==
    IF key # None /\ TruthyKey(key[1])
    THEN updateStats(Store(Delete(s.cache, key[1]), s.stats))
    ELSE updateStats(Store(<<>>, s.stats))

-----------------------------------------------------------------------------
(* ContactCache: cleanup *)

Expired(e, cfg, t) == t - e.timestamp > cfg.ttlMs

\* the first loop of cleanup without its evictions++
removeExpiredUncounted(s, cfg, t) ==
    Store(SelectSeq(s.cache, LAMBDA e : ~Expired(e, cfg, t)), s.stats)

\* the first loop of cleanup: every expired entry is deleted and counted
removeExpired(s, cfg, t) ==
    LET kept == SelectSeq(s.cache, LAMBDA e : ~Expired(e, cfg, t))
    IN Store(kept, [s.stats EXCEPT !.evictions = @ + (Len(s.cache) - Len(kept))])

\* while (isOverMemoryLimit()) evictLeastRecentlyUsed(): every iteration reads
\* the clock again. An iteration that finds no entry older than the clock
\* evicts nothing, and the loop spins until the clock has moved on; when the
\* clock has moved on and an iteration still evicts nothing, the loop never
\* ends. The outcome is the store and the clock the loop ends with.
RECURSIVE enforceMemory(_, _, _)
enforceMemory(s, cfg, t) ==
    IF ~isOverMemoryLimit(s.cache, cfg) THEN [store |-> s, ends |-> TRUE, now |-> t]
    ELSE IF evictLeastRecentlyUsed(s, t) # s
         THEN enforceMemory(evictLeastRecentlyUsed(s, t), cfg, t)
         ELSE IF evictLeastRecentlyUsed(s, t + 1) # s
              THEN enforceMemory(s, cfg, t + 1)
              ELSE [store |-> s, ends |-> FALSE, now |-> t]

-----------------------------------------------------------------------------
(* ContactCache: the sweeper timer *)

\* setInterval returns a handle no armed timer has
FreshTimer(ts) == CHOOSE id \in 1..(Cardinality(ts) + 1) : \A x \in ts : x.id # id
\* clearInterval
Cleared(ts, handle) == {x \in ts : Some(x.id) # handle}

Timer(handle, ts) == [cleanupTimer |-> handle, timers |-> ts]

startCleanupTimer(tm, cfg) ==
    LET ts == IF tm.cleanupTimer # None THEN Cleared(tm.timers, tm.cleanupTimer)
              ELSE tm.timers
        id == FreshTimer(ts)
    IN Timer(Some(id), ts \cup {[id |-> id, interval |-> cfg.cleanupIntervalMs]})

stopCleanupTimer(tm) ==
    IF tm.cleanupTimer # None THEN Timer(None, Cleared(tm.timers, tm.cleanupTimer))
    ELSE tm

\* updateConfig that keeps the entries when it disables the store
updateConfigKeepingEntries(c, cfg, tm, newConfig) ==
    LET merged == Spread(cfg, newConfig)
    IN IF ~cfg.enabled /\ merged.enabled
       THEN [config |-> merged, timer |-> startCleanupTimer(tm, merged), cache |-> c]
       ELSE IF cfg.enabled /\ ~merged.enabled
            THEN [config |-> merged, timer |-> stopCleanupTimer(tm), cache |-> c]
            ELSE [config |-> merged, timer |-> tm, cache |-> c]

\* updateConfig that leaves the sweeper armed when it disables the store
updateConfigLeavingTimer(c, cfg, tm, newConfig) ==
    LET merged == Spread(cfg, newConfig)
    IN IF ~cfg.enabled /\ merged.enabled
       THEN [config |-> merged, timer |-> startCleanupTimer(tm, merged), cache |-> c]
       ELSE IF cfg.enabled /\ ~merged.enabled
            THEN [config |-> merged, timer |-> tm, cache |-> <<>>]
            ELSE [config |-> merged, timer |-> tm, cache |-> c]

\* updateConfig(newConfig): the new configuration, timer and entry map
updateConfig(c, cfg, tm, newConfig) ==
    LET merged == Spread(cfg, newConfig)
    IN IF ~cfg.enabled /\ merged.enabled
       THEN [config |-> merged, timer |-> startCleanupTimer(tm, merged), cache |-> c]
       ELSE IF cfg.enabled /\ ~merged.enabled
            THEN [config |-> merged, timer |-> stopCleanupTimer(tm), cache |-> <<>>]
            ELSE [config |-> merged, timer |-> tm, cache |-> c]

\* getStats(): a copy of the statistics
getStats(st) == st

-----------------------------------------------------------------------------
(* index.ts: the server's start-up *)

\* the modules attemptEagerLoading imports, in the order it imports them
ModuleNames ==
    <<"contacts", "notes", "message", "mail", "reminders", "webSearch",
      "calendar", "maps", "photos">>

\* the module variables contacts .. photos as declared: all null (FALSE);
\* TRUE stands for a loaded module
NoModules == [m \in {ModuleNames[i] : i \in 1..Len(ModuleNames)} |-> FALSE]

\* the handle setTimeout returned for the loading timeout
LoadingTimer == "loadingTimeout"

\* index.ts once its top level has run: the loading timeout is armed and
\* attemptEagerLoading is suspended at its first import; no server yet.
\*   timeouts    the runtime's pending one-shot timers
\*   awaiting    the import attemptEagerLoading is suspended at, 0 once it
\*               has returned
\*   server      the module variable server: the server created last
\*   servers, transports, stdoutFilters
\*               how many Server and StdioServerTransport objects have been
\*               created, and how many filters wrap process.stdout.write
\*   connecting, connected
\*               the servers whose connect() is pending, and has resolved
\*   exited      process.exit(1) has been called
Evaluated ==
    [useEagerLoading  |-> TRUE,
     loadingTimeout   |-> Some(LoadingTimer),
     safeModeFallback |-> FALSE,
     modules          |-> NoModules,
     timeouts         |-> {LoadingTimer},
     awaiting         |-> 1,
     initServerRuns   |-> 0,
     server           |-> None,
     servers          |-> 0,
     transports       |-> 0,
     stdoutFilters    |-> 0,
     connecting       |-> {},
     connected        |-> {},
     exited           |-> FALSE]

\* useEagerLoading = false; safeModeFallback = true; and the nine module
\* variables set to null
switchToSafeMode(st) ==
    [st EXCEPT !.useEagerLoading = FALSE,
               !.safeModeFallback = TRUE,
               !.modules = NoModules]

\* if (loadingTimeout) { clearTimeout(loadingTimeout); loadingTimeout = null; }
\* clearTimeout of a timer that has fired does nothing
clearLoadingTimeout(st) ==
    IF st.loadingTimeout # None
    THEN [st EXCEPT !.timeouts = @ \ {st.loadingTimeout[1]},
                    !.loadingTimeout = None]
    ELSE st

\* initServer(): a new Server is assigned to server and given its handlers;
\* the async block then runs up to its await: a new StdioServerTransport,
\* process.stdout.write wrapped in one more filter, server.connect begun
initServer(st) ==
    [st EXCEPT !.initServerRuns = @ + 1,
               !.server = Some(st.servers + 1),
               !.servers = @ + 1,
               !.transports = @ + 1,
               !.stdoutFilters = @ + 1,
               !.connecting = @ \cup {st.servers + 1}]

-----------------------------------------------------------------------------
(* The store on its own: callers use any key and snapshot *)

\* ret: what the last operation was; for a get, its key, the entry it found
\* and the value it returned; for a cleanup, how many entries it removed
Op(name, key, entry, value) ==
    [op |-> name, key |-> key, entry |-> entry, value |-> value]
Other == Op("other", None, None, None)

\* new ContactCache(config)
Init ==
    /\ config \in InitConfigs
    /\ cache = <<>>
    /\ stats = InitStats
    /\ LET tm == IF config.enabled THEN startCleanupTimer(Timer(None, {}), config)
                 ELSE Timer(None, {})
       IN cleanupTimer = tm.cleanupTimer /\ timers = tm.timers
    /\ now = 0
    /\ hung = FALSE
    /\ destroyed = FALSE
    /\ ret = Other
    /\ calls = <<>>
    /\ startup = Evaluated

\* time passes
Tick ==
    /\ ~hung /\ ~destroyed
    /\ now < MaxTime
    /\ now' = now + 1
    /\ ret' = Other
    /\ UNCHANGED <<cache, config, stats, cleanupTimer, timers, hung, destroyed, calls, startup>>

Get(key) ==
    /\ ~hung /\ ~destroyed
    /\ now <= MaxTime
    /\ stats.totalQueries < MaxQueries
    /\ LET r == get(Store(cache, stats), config, key, now)
       IN /\ cache' = r.store.cache
          /\ stats' = r.store.stats
          /\ ret' = Op("get", Some(key), Lookup(cache, key), r.value)
    /\ UNCHANGED <<config, cleanupTimer, timers, now, hung, destroyed, calls, startup>>

Set(data, key) ==
    /\ ~hung /\ ~destroyed
    /\ now <= MaxTime
    /\ LET s == set(Store(cache, stats), config, data, key, now)
       IN /\ cache' = s.cache
          /\ stats' = s.stats
          /\ ret' = Other
    /\ UNCHANGED <<config, cleanupTimer, timers, now, hung, destroyed, calls, startup>>

Invalidate(key) ==
    /\ ~hung /\ ~destroyed
    /\ now <= MaxTime
    /\ LET s == invalidate(Store(cache, stats), key)
       IN /\ cache' = s.cache
          /\ stats' = s.stats
          /\ ret' = Other
    /\ UNCHANGED <<config, cleanupTimer, timers, now, hung, destroyed, calls, startup>>

\* cleanup(): the steps of the method in order, each one taking the outcome
\* of the step before it; ret tells how many entries it removed
cleanup ==
    IF ~config.enabled
    THEN /\ ret' = Op("cleanup", None, None, Some(0))
         /\ UNCHANGED <<cache, stats, hung, now>>
    ELSE \E live \in {removeExpired(Store(cache, stats), config, now)} :
         \E r \in {enforceMemory(live, config, now)} :
         \E s \in {IF r.ends THEN updateStats(r.store) ELSE r.store} :
            /\ cache' = s.cache
            /\ stats' = s.stats
            /\ hung' = ~r.ends
            /\ now' = r.now
            /\ ret' = Op("cleanup", None, None, Some(Len(cache) - Len(s.cache)))

\* cleanup() called directly (it is a public method)
Cleanup ==
    /\ ~hung /\ ~destroyed
    /\ cleanup
    /\ UNCHANGED <<config, cleanupTimer, timers, destroyed, calls, startup>>

\* an armed interval timer fires: the callback of startCleanupTimer
TimerFire ==
    /\ ~hung
    /\ timers # {}
    /\ cleanup
    /\ UNCHANGED <<config, cleanupTimer, timers, destroyed, calls, startup>>

UpdateConfig(newConfig) ==
    /\ ~hung
    /\ LET r == updateConfig(cache, config, Timer(cleanupTimer, timers), newConfig)
       IN /\ config' = r.config
          /\ cache' = r.cache
          /\ cleanupTimer' = r.timer.cleanupTimer
          /\ timers' = r.timer.timers
    /\ ret' = Other
    /\ UNCHANGED <<stats, now, hung, destroyed, calls, startup>>

Destroy ==
    /\ ~hung
    /\ ~destroyed
    /\ LET tm == stopCleanupTimer(Timer(cleanupTimer, timers))
           s == updateStats(Store(<<>>, stats))
       IN /\ cleanupTimer' = tm.cleanupTimer
          /\ timers' = tm.timers
          /\ cache' = s.cache
          /\ stats' = s.stats
    /\ destroyed' = TRUE
    /\ ret' = Other
    /\ UNCHANGED <<config, now, hung, calls, startup>>

\* The store is used directly. Once destroyed it gets no more get, set,
\* invalidate or cleanup calls, but it may still be reconfigured.
Next ==
    \/ Tick
    \/ \E k \in Keys : Get(k)
    \/ \E x \in SetInputs : Set(x[1], x[2])
    \/ \E k \in {None} \cup {Some(x) : x \in Keys} : Invalidate(k)
    \/ Cleanup
    \/ TimerFire
    \/ \E p \in ConfigPatches : UpdateConfig(p)
    \/ Destroy

Spec == Init /\ [][Next]_vars

-----------------------------------------------------------------------------
(* utils/contacts.ts: phone numbers and names *)

Digits == {"0", "1", "2", "3", "4", "5", "6", "7", "8", "9"}
Whitespace == {" "}

StartsWith(s, pre) == Len(s) >= Len(pre) /\ SubSeq(s, 1, Len(pre)) = pre
\* s.substring(n)
Substring(s, n) == SubSeq(s, n + 1, Len(s))

RECURSIVE TrimStart(_)
TrimStart(s) == IF s # <<>> /\ Head(s) \in Whitespace THEN TrimStart(Tail(s)) ELSE s
RECURSIVE TrimEnd(_)
TrimEnd(s) == IF s # <<>> /\ s[Len(s)] \in Whitespace
              THEN TrimEnd(SubSeq(s, 1, Len(s) - 1)) ELSE s
\* s.trim()
Trim(s) == TrimEnd(TrimStart(s))

\* [...new Set(xs)]: the first occurrence of each element, in order
RECURSIVE Dedup(_)
Dedup(xs) ==
    IF xs = <<>> THEN <<>>
    ELSE LET init == Dedup(SubSeq(xs, 1, Len(xs) - 1))
             last == xs[Len(xs)]
         IN IF \E i \in 1..Len(init) : init[i] = last THEN init ELSE Append(init, last)

\* a cleaning that keeps the punctuation
keepFormatting(s) == s

\* s.replace(/[^0-9+]/g, '')
StripFormatting(s) == SelectSeq(s, LAMBDA ch : ch \in Digits \cup {"+"})

MaxPhoneLength == 30
MaxNameLength == 200

\* validatePhoneNumber: the sanitized number, or None when it throws
validatePhoneNumber(phoneNumber) ==
    LET trimmed == Trim(phoneNumber)
    IN IF Len(trimmed) = 0 THEN None
       ELSE IF \E i \in 1..Len(trimmed) :
                  trimmed[i] \notin Digits \cup {"+", "-", "(", ")", "."} \cup Whitespace
            THEN None
            ELSE IF Len(trimmed) > MaxPhoneLength THEN None
                 ELSE Some(trimmed)

\* validateContactName: the sanitized name, or None when it throws (the
\* model's alphabet holds no control character)
validateContactName(name) ==
    LET trimmed == Trim(name)
    IN IF Len(trimmed) = 0 THEN None
       ELSE IF Len(trimmed) > MaxNameLength THEN None
            ELSE Some(trimmed)


normalizePhoneNumber(phoneNumber) ==
    LET cleaned == StripFormatting(phoneNumber)
        f1 == <<cleaned>>
        f2 == IF StartsWith(cleaned, <<"+", "1">>)
              THEN Append(f1, Substring(cleaned, 2)) ELSE f1
        f3 == IF ~StartsWith(cleaned, <<"+">>) /\ Len(cleaned) = 10
              THEN Append(f2, <<"+", "1">> \o cleaned) ELSE f2
        f4 == IF ~StartsWith(cleaned, <<"+">>) /\ Len(cleaned) > 0
              THEN Append(f3, <<"+">> \o cleaned) ELSE f3
    IN Dedup(f4)

\* the comparison both phone searches make between a stored number, stripped
\* of its formatting, and one search format
PhoneMatches(num, searchNumber) ==
    \/ num = searchNumber
    \/ num = <<"+">> \o searchNumber
    \/ num = <<"+", "1">> \o searchNumber
    \/ <<"+", "1">> \o num = searchNumber

\* some number of the list matches some search format
AnyPhoneMatches(numbers, searchNumbers) ==
    \E j \in 1..Len(numbers), k \in 1..Len(searchNumbers) :
        PhoneMatches(StripFormatting(numbers[j]), searchNumbers[k])

\* toLowerCase, on the letters of the model's names
LowerChar(ch) == CASE ch = "A" -> "a" [] ch = "B" -> "b" [] OTHER -> ch
ToLowerCase(s) == [i \in 1..Len(s) |-> LowerChar(s[i])]
\* hay.includes(needle)
Includes(hay, needle) ==
    \E i \in 0..(Len(hay) - Len(needle)) : SubSeq(hay, i + 1, i + Len(needle)) = needle
NameMatches(personName, searchName) ==
    Includes(ToLowerCase(personName), ToLowerCase(searchName))

\* obj[name] = phones: a present key keeps its place, a new one goes last
Assign(data, name, phones) ==
    IF \E i \in 1..Len(data) : data[i].name = name
    THEN [i \in 1..Len(data) |->
             IF data[i].name = name THEN Contact(name, phones) ELSE data[i]]
    ELSE Append(data, Contact(name, phones))

PhonesOf(data, name) ==
    IF \E i \in 1..Len(data) : data[i].name = name
    THEN data[CHOOSE i \in 1..Len(data) : data[i].name = name].phones
    ELSE <<>>

\* the first of a set of indices, or 0 when there is none
FirstIndex(indices) ==
    IF indices = {} THEN 0 ELSE CHOOSE i \in indices : \A j \in indices : i <= j

-----------------------------------------------------------------------------
(* The directory service (the Contacts application), an external collaborator *)

\* the people of the address book, in the order the application lists them
Directory == <<Contact(Bob, <<PhoneDashed>>), Contact(Al, <<PhoneOther>>)>>

AccessDeniedMessage ==
    "Cannot access Contacts app. Please grant access in System Preferences > Security & Privacy > Privacy > Contacts."
ScriptFailedMessage == "AppleScript failed"

\* the JXA script of getAllNumbers: people with a name and a phone number
RECURSIVE JxaEnumerate(_)
JxaEnumerate(people) ==
    IF people = <<>> THEN <<>>
    ELSE LET init == JxaEnumerate(SubSeq(people, 1, Len(people) - 1))
             person == people[Len(people)]
         IN IF person.name # <<>> /\ Len(person.phones) > 0
            THEN Assign(init, person.name, person.phones) ELSE init

\* getAllNumbersAppleScript: one "name|phone" line per phone number, parsed
\* back with both fields trimmed and the phones of a name collected
RECURSIVE ParseLines(_)
ParseLines(lines) ==
    IF lines = <<>> THEN <<>>
    ELSE LET init == ParseLines(SubSeq(lines, 1, Len(lines) - 1))
             name == Trim(lines[Len(lines)][1])
             phone == Trim(lines[Len(lines)][2])
         IN IF name # <<>> /\ phone # <<>>
            THEN Assign(init, name, Append(PhonesOf(init, name), phone)) ELSE init

RECURSIVE ScriptLines(_)
ScriptLines(people) ==
    IF people = <<>> THEN <<>>
    ELSE ScriptLines(SubSeq(people, 1, Len(people) - 1))
         \o [j \in 1..Len(people[Len(people)].phones) |->
                <<people[Len(people)].name, people[Len(people)].phones[j]>>]

getAllNumbersAppleScript(people) == ParseLines(ScriptLines(people))

\* the JXA script of findNumber: the phones of the first person whose name
\* contains the search name and who has a phone number, or []
findNumberScript(people, searchName) ==
    LET i == FirstIndex({n \in 1..Len(people) :
                            /\ people[n].name # <<>>
                            /\ NameMatches(people[n].name, searchName)
                            /\ Len(people[n].phones) > 0})
    IN IF i = 0 THEN <<>> ELSE people[i].phones

\* the JXA script of findContactByPhoneOptimized: the first person one of
\* whose numbers matches one of the search formats, or null
phoneSearchScript(people, searchFormats) ==
    LET i == FirstIndex({n \in 1..Len(people) :
                            AnyPhoneMatches(people[n].phones, searchFormats)})
    IN IF i = 0 THEN None ELSE Some(people[i])

-----------------------------------------------------------------------------
(* utils/contacts.ts: the cache-aware functions, as pure steps on the store *)

AllContactsKey == "allContacts"

\* cache.get('allContacts'), the first thing getAllNumbers does
cachedContacts(s, cfg, t) == get(s, cfg, AllContactsKey, t)

\* the end of a getAllNumbers that stores whatever it obtained
cacheContactsAlways(s, cfg, contactsData, t) == set(s, cfg, contactsData, AllContactsKey, t)


\* the end of a getAllNumbers that stores nothing
cacheContactsSkipped(s, cfg, contactsData, t) == s

\* the end of getAllNumbers: a non-empty result is stored
cacheContacts(s, cfg, contactsData, t) ==
    IF Len(contactsData) > 0 THEN set(s, cfg, contactsData, AllContactsKey, t) ELSE s

\* findContactByPhoneCachedSearch: the store after the lookup and the name
\* found, or null
findContactByPhoneCachedSearch(s, cfg, searchNumbers, t) ==
    LET g == get(s, cfg, AllContactsKey, t)
    IN IF g.value = None THEN Outcome(g.store, None)
       ELSE LET allContacts == g.value[1]
                i == FirstIndex({n \in 1..Len(allContacts) :
                                    AnyPhoneMatches(allContacts[n].phones, searchNumbers)})
            IN Outcome(g.store, IF i = 0 THEN None ELSE Some(allContacts[i].name))

\* the snapshot get returned is the cached object itself: assigning to it
\* changes the entry in place
MutateEntry(c, key, data) ==
    IF Has(c, key) THEN [c EXCEPT ![IndexOf(c, key)].data = data] ELSE c

\* a write-back that replaces the snapshot by the one contact found
cachePhoneSearchResultReplacing(s, cfg, contactName, phoneNumbers, t) ==
    LET g == get(s, cfg, AllContactsKey, t)
    IN set(g.store, cfg, <<Contact(contactName, phoneNumbers)>>, AllContactsKey, t)


cachePhoneSearchResult(s, cfg, contactName, phoneNumbers, t) ==
    LET g == get(s, cfg, AllContactsKey, t)
        existingData == IF g.value = None THEN <<>> ELSE g.value[1]
        merged == Assign(existingData, contactName, phoneNumbers)
        live == IF g.value = None THEN g.store
                ELSE Store(MutateEntry(g.store.cache, AllContactsKey, merged),
                           g.store.stats)
    IN set(live, cfg, merged, AllContactsKey, t)

\* findNumberFuzzyFallback, once it has the snapshot to search
fuzzyMatch(allNumbers, sanitizedName) ==
    LET i == FirstIndex({n \in 1..Len(allNumbers) :
                            NameMatches(allNumbers[n].name, sanitizedName)})
    IN IF i = 0 THEN <<>> ELSE allNumbers[i].phones

-----------------------------------------------------------------------------
(* Calls to the query layer. Each call runs from one await to the next in  *)
(* one step; the directory service answers each request as it pleases.     *)

\* at most MaxCalls calls are made
MaxCalls == 2

\* what a call returned, or threw
Pending == [kind |-> "pending", value |-> <<>>, error |-> <<>>]
Data(d) == [kind |-> "data", value |-> d, error |-> <<>>]
Phones(ps) == [kind |-> "phones", value |-> ps, error |-> <<>>]
Name(n) == [kind |-> "name", value |-> n, error |-> <<>>]
Null == [kind |-> "null", value |-> <<>>, error |-> <<>>]
Thrown(prefix, message) == [kind |-> "error", value |-> <<>>, error |-> <<prefix, message>>]

\* fn, arg: the function called and its argument; pc: the await it stands
\* at; dir: the directory-service requests it has made (and "denied" when
\* its access check failed); hit: it was answered from the cache;
\* after: the calls that had returned when it began; doneAt: when it
\* returned; cleared: the cache was disabled when it began, or has been
\* invalidated or disabled since
NewCall(fn, arg) ==
    [fn |-> fn, arg |-> arg, pc |-> "begin", dir |-> {}, result |-> Pending,
     hit |-> FALSE, after |-> {i \in 1..Len(calls) : calls[i].pc = "done"},
     doneAt |-> 0, cleared |-> ~config.enabled]

Return(call, result, t) == [call EXCEPT !.pc = "done", !.result = result, !.doneAt = t]
Await(call, pc, request) == [call EXCEPT !.pc = pc, !.dir = @ \cup {request}]
Clear(cs) == [i \in 1..Len(cs) |-> [cs[i] EXCEPT !.cleared = TRUE]]

\* getAllNumbers returns data or throws; inside findNumberFuzzyFallback the
\* data is searched and an error becomes []
ReturnContacts(call, contactsData, t) ==
    IF call.fn = "findNumber" THEN Return(call, Phones(fuzzyMatch(contactsData, call.arg)), t)
    ELSE Return(call, Data(contactsData), t)
ThrowContacts(call, message, t) ==
    IF call.fn = "findNumber" THEN Return(call, Phones(<<>>), t)
    ELSE Return(call, Thrown("Error accessing contacts: ", message), t)

\* getAllNumbers that checks access before it looks in the cache
beginGetAllNumbersAccessFirst(call, s, cfg, t) ==
    [store |-> s, call |-> Await(call, "ga_access", "access")]

\* getAllNumbers up to its first await
beginGetAllNumbers(call, s, cfg, t) ==
    LET g == cachedContacts(s, cfg, t)
    IN IF g.value # None
       THEN [store |-> g.store, call |-> ReturnContacts([call EXCEPT !.hit = TRUE], g.value[1], t)]
       ELSE [store |-> g.store, call |-> Await(call, "ga_access", "access")]

\* findNumberFuzzyFallback up to its first await
beginFuzzyFallback(call, s, cfg, t) ==
    LET g == cachedContacts(s, cfg, t)
    IN IF g.value # None
       THEN [store |-> g.store,
             call |-> Return([call EXCEPT !.hit = TRUE],
                             Phones(fuzzyMatch(g.value[1], call.arg)), t)]
       ELSE beginGetAllNumbers(call, g.store, cfg, t)

\* a phone search that loads all contacts when it misses the cache
searchCacheOrEnumerate(call, s, cfg, t) ==
    LET r == findContactByPhoneCachedSearch(s, cfg, normalizePhoneNumber(call.arg), t)
    IN IF r.value # None /\ r.value[1] # <<>>
       THEN [store |-> r.store, call |-> Return([call EXCEPT !.hit = TRUE], Name(r.value[1]), t)]
       ELSE [store |-> r.store, call |-> Await(Await(call, "scan", "primary"), "scan", "scan")]


\* findContactByPhoneOptimized once its access check has succeeded
searchCacheForPhone(call, s, cfg, t) ==
    LET r == findContactByPhoneCachedSearch(s, cfg, normalizePhoneNumber(call.arg), t)
    IN IF r.value # None /\ r.value[1] # <<>>
       THEN [store |-> r.store, call |-> Return([call EXCEPT !.hit = TRUE], Name(r.value[1]), t)]
       ELSE [store |-> r.store, call |-> Await(call, "scan", "scan")]

\* findContactByPhoneOptimized once its phone search script has returned
finishPhoneSearch(call, s, cfg, foundContact, t) ==
    IF foundContact # None /\ foundContact[1].name # <<>>
    THEN [store |-> cachePhoneSearchResult(s, cfg, foundContact[1].name,
                                           foundContact[1].phones, t),
          call |-> Return(call, Name(foundContact[1].name), t)]
    ELSE [store |-> s, call |-> Return(call, Null, t)]

-----------------------------------------------------------------------------
(* The query layer in use *)

PhoneInputs == {PhoneDashed, PhonePlain, PhoneOther}
NameInputs == {<<"b", "o">>, <<"z">>}
QueryPatches == {[enabled |-> b] : b \in BOOLEAN}

\* getContactCache() on first use, the time-to-live then shortened with
\* updateCacheConfig so that entries expire within the model's clock
QueryInit ==
    /\ config = Spread(DEFAULT_CONFIG, [ttlMs |-> ShortTtl])
    /\ cache = <<>>
    /\ stats = InitStats
    /\ LET tm == startCleanupTimer(Timer(None, {}), config)
       IN cleanupTimer = tm.cleanupTimer /\ timers = tm.timers
    /\ now = 0
    /\ hung = FALSE
    /\ destroyed = FALSE
    /\ ret = Other
    /\ calls = <<>>
    /\ startup = Evaluated

Step(i, r) ==
    /\ cache' = r.store.cache
    /\ stats' = r.store.stats
    /\ calls' = IF i > Len(calls) THEN Append(calls, r.call) ELSE [calls EXCEPT ![i] = r.call]
    /\ ret' = Other
    /\ UNCHANGED <<config, cleanupTimer, timers, now, hung, destroyed, startup>>

Here == Store(cache, stats)
AtPc(i, fns, pc) == calls[i].fn \in fns /\ calls[i].pc = pc

\* invalidateCache()
InvalidateCache ==
    /\ ~hung
    /\ LET s == invalidate(Here, None)
       IN cache' = s.cache /\ stats' = s.stats
    /\ calls' = Clear(calls)
    /\ ret' = Op("invalidate", None, None, None)
    /\ UNCHANGED <<config, cleanupTimer, timers, now, hung, destroyed, startup>>

\* updateCacheConfig(config)
UpdateCacheConfig(newConfig) ==
    /\ ~hung
    /\ LET r == updateConfig(cache, config, Timer(cleanupTimer, timers), newConfig)
       IN /\ config' = r.config
          /\ cache' = r.cache
          /\ cleanupTimer' = r.timer.cleanupTimer
          /\ timers' = r.timer.timers
          /\ calls' = IF config.enabled /\ ~r.config.enabled THEN Clear(calls) ELSE calls
    /\ ret' = Other
    /\ UNCHANGED <<stats, now, hung, destroyed, startup>>

CallGetAllNumbers ==
    /\ ~hung /\ Len(calls) < MaxCalls
    /\ Step(Len(calls) + 1,
            beginGetAllNumbers(NewCall("getAllNumbers", <<>>), Here, config, now))

\* checkContactsAccess answers a getAllNumbers
ContactsAccessChecked(i, granted) ==
    /\ ~hung /\ AtPc(i, {"getAllNumbers", "findNumber"}, "ga_access")
    /\ Step(i, [store |-> Here,
                call |-> IF granted THEN Await(calls[i], "ga_primary", "primary")
                         ELSE ThrowContacts(Await(calls[i], "ga_access", "denied"),
                                            AccessDeniedMessage, now)])

\* the JXA script of getAllNumbers returns the people, returns none, or fails
ContactsEnumerated(i, outcome) ==
    /\ ~hung /\ AtPc(i, {"getAllNumbers", "findNumber"}, "ga_primary")
    /\ LET nums == IF outcome = "ok" THEN JxaEnumerate(Directory) ELSE <<>>
       IN Step(i, IF outcome = "ok" /\ Len(nums) # 0
                  THEN [store |-> cacheContacts(Here, config, nums, now),
                        call |-> ReturnContacts(calls[i], nums, now)]
                  ELSE [store |-> Here, call |-> Await(calls[i], "ga_fallback", "fallback")])

\* getAllNumbersAppleScript returns the people, returns none, or fails
ContactsEnumeratedByScript(i, outcome) ==
    /\ ~hung /\ AtPc(i, {"getAllNumbers", "findNumber"}, "ga_fallback")
    /\ LET contactsData == IF outcome = "ok" THEN getAllNumbersAppleScript(Directory)
                           ELSE <<>>
       IN Step(i, IF outcome = "throw"
                  THEN [store |-> Here, call |-> ThrowContacts(calls[i], ScriptFailedMessage, now)]
                  ELSE [store |-> cacheContacts(Here, config, contactsData, now),
                        call |-> ReturnContacts(calls[i], contactsData, now)])

CallFindNumber(name) ==
    /\ ~hung /\ Len(calls) < MaxCalls
    /\ LET sanitized == validateContactName(name)
           call == NewCall("findNumber", IF sanitized = None THEN name ELSE sanitized[1])
       IN Step(Len(calls) + 1,
               [store |-> Here,
                call |-> IF sanitized = None
                         THEN Return(call, Thrown("Error finding contact: ",
                                                  "Contact name cannot be empty"), now)
                         ELSE Await(call, "access", "access")])

\* checkContactsAccess answers a findNumber
NameAccessChecked(i, granted) ==
    /\ ~hung /\ AtPc(i, {"findNumber"}, "access")
    /\ Step(i, [store |-> Here,
                call |-> IF granted THEN Await(calls[i], "search", "search")
                         ELSE Return(Await(calls[i], "access", "denied"),
                                     Thrown("Error finding contact: ", AccessDeniedMessage),
                                     now)])

\* the JXA script of findNumber returns phones, or fails
NameSearched(i, outcome) ==
    /\ ~hung /\ AtPc(i, {"findNumber"}, "search")
    /\ LET phones == IF outcome = "ok" THEN findNumberScript(Directory, calls[i].arg)
                     ELSE <<>>
       IN Step(i, IF Len(phones) # 0
                  THEN [store |-> Here, call |-> Return(calls[i], Phones(phones), now)]
                  ELSE beginFuzzyFallback(calls[i], Here, config, now))

CallFindContactByPhone(phoneNumber) ==
    /\ ~hung /\ Len(calls) < MaxCalls
    /\ LET sanitized == validatePhoneNumber(phoneNumber)
           call == NewCall("findContactByPhone",
                           IF sanitized = None THEN phoneNumber ELSE sanitized[1])
       IN Step(Len(calls) + 1,
               [store |-> Here,
                call |-> IF sanitized = None THEN Return(call, Null, now)
                         ELSE Await(call, "access", "access")])

\* checkContactsAccess answers a findContactByPhone
PhoneAccessChecked(i, granted) ==
    /\ ~hung /\ AtPc(i, {"findContactByPhone"}, "access")
    /\ Step(i, IF granted THEN searchCacheForPhone(calls[i], Here, config, now)
               ELSE [store |-> Here,
                     call |-> Return(Await(calls[i], "access", "denied"), Null, now)])

\* the phone search script returns a person or null, or fails
PhoneSearched(i, outcome) ==
    /\ ~hung /\ AtPc(i, {"findContactByPhone"}, "scan")
    /\ Step(i, IF outcome = "ok"
               THEN finishPhoneSearch(calls[i], Here, config,
                        phoneSearchScript(Directory, normalizePhoneNumber(calls[i].arg)), now)
               ELSE [store |-> Here, call |-> Return(calls[i], Null, now)])

QueryNext ==
    \/ Tick
    \/ TimerFire
    \/ InvalidateCache
    \/ \E p \in QueryPatches : UpdateCacheConfig(p)
    \/ CallGetAllNumbers
    \/ \E n \in NameInputs : CallFindNumber(n)
    \/ \E p \in PhoneInputs : CallFindContactByPhone(p)
    \/ \E i \in 1..Len(calls), granted \in BOOLEAN : ContactsAccessChecked(i, granted)
    \/ \E i \in 1..Len(calls), o \in {"ok", "empty", "throw"} : ContactsEnumerated(i, o)
    \/ \E i \in 1..Len(calls), o \in {"ok", "empty", "throw"} : ContactsEnumeratedByScript(i, o)
    \/ \E i \in 1..Len(calls), granted \in BOOLEAN : NameAccessChecked(i, granted)
    \/ \E i \in 1..Len(calls), o \in {"ok", "throw"} : NameSearched(i, o)
    \/ \E i \in 1..Len(calls), granted \in BOOLEAN : PhoneAccessChecked(i, granted)
    \/ \E i \in 1..Len(calls), o \in {"ok", "throw"} : PhoneSearched(i, o)

QuerySpec == QueryInit /\ [][QueryNext]_vars

-----------------------------------------------------------------------------
(* Properties of the store *)

\* the instants a call can be made at from now on, up to past any expiry
Later == now..(now + config.ttlMs + 1)

\* C1: on an enabled store, get of a key whose entry is older than ttlMs
\* (by its creation time) returns absent, removes the entry and adds 1 to
\* misses and 1 to evictions; a get that hits leaves the creation time as
\* it was, so hits in between do not postpone the expiry.
C1_ExpiryIsAbsolute ==
    config.enabled =>
        \A k \in Keys, t \in Later :
            Has(cache, k) =>
                LET e == Lookup(cache, k)[1]
                    r == get(Here, config, k, t)
                IN IF t - e.timestamp > config.ttlMs
                   THEN /\ r.value = None
                        /\ ~Has(r.store.cache, k)
                        /\ r.store.stats.misses = stats.misses + 1
                        /\ r.store.stats.evictions = stats.evictions + 1
                   ELSE /\ r.value # None
                        /\ Lookup(r.store.cache, k)[1].timestamp = e.timestamp

\* a get has found an entry that was hit before and is past its time to
\* live, and has returned absent and removed it
C1_Witness ==
    /\ ret.op = "get"
    /\ ret.entry # None
    /\ ret.entry[1].accessCount >= 2
    /\ ret.entry[1].lastAccessed > ret.entry[1].timestamp
    /\ now - ret.entry[1].timestamp > config.ttlMs
    /\ ret.value = None
    /\ ~Has(cache, ret.key[1])

\* C2: once an operation has returned, the store holds at most
\* config.maxEntries entries.
C2_AtMostMaxEntries == Len(cache) <= config.maxEntries

\* the entries with the smallest lastAccessed
LeastRecentlyUsed(c) ==
    {i \in 1..Len(c) : \A j \in 1..Len(c) : c[i].lastAccessed <= c[j].lastAccessed}

\* C3: a set of a key not yet present, on a store holding exactly
\* maxEntries entries, removes exactly one entry, one with the smallest
\* lastAccessed, and adds the new one.
C3_EvictsOneLeastRecentlyUsed ==
    [][\A x \in SetInputs :
          (/\ Set(x[1], x[2])
           /\ config.enabled
           /\ ~Has(cache, x[2])
           /\ Len(cache) = config.maxEntries)
          => \E i \in LeastRecentlyUsed(cache) :
                 KeysOf(cache') = (KeysOf(cache) \ {cache[i].key}) \cup {x[2]}]_vars

\* C4: on an enabled store, set(S, k) followed by get(k) within ttlMs
\* returns S, whatever the store held and whatever the set evicted.
C4_SetThenGet ==
    config.enabled =>
        \A S \in Snapshots, k \in Keys, t \in now..(now + config.ttlMs) :
            get(set(Here, config, S, k, now), config, k, t).value = Some(S)

\* a get has returned the snapshot set at this instant, on a full store
\* from which an entry was evicted and nothing has ever expired
C4_Witness ==
    /\ ret.op = "get"
    /\ ret.entry # None
    /\ ret.entry[1].timestamp = now
    /\ ret.entry[1].accessCount = 1
    /\ ret.value = Some(ret.entry[1].data)
    /\ now <= config.ttlMs
    /\ stats.evictions > 0
    /\ Len(cache) = config.maxEntries

\* C6: after updateConfig has disabled an enabled store that held an
\* entry, getStats().currentEntries is 0.
C6_DisabledStatsShowNoEntries ==
    [][\A p \in ConfigPatches :
          (/\ UpdateConfig(p)
           /\ config.enabled /\ ~config'.enabled
           /\ Len(cache) >= 1)
          => getStats(stats').currentEntries = 0]_vars

\* C7: while the store is disabled the entry map is empty, get returns
\* absent and adds 1 to totalQueries and to misses and changes nothing
\* else, and set changes neither the entry map nor the statistics.
C7_DisabledStoreIsInert ==
    ~config.enabled =>
        /\ cache = <<>>
        /\ \A k \in Keys, t \in Later :
               get(Here, config, k, t) =
                   Outcome(Store(cache, [stats EXCEPT !.totalQueries = @ + 1,
                                                      !.misses = @ + 1]),
                           None)
        /\ \A S \in Snapshots, k \in Keys, t \in Later :
               set(Here, config, S, k, t) = Here

\* a store that held entries while enabled is now disabled, and a get has
\* missed on it
C7_Witness ==
    /\ ~config.enabled
    /\ stats.currentEntries > 0
    /\ ret.op = "get"
    /\ ret.value = None
    /\ stats.misses > 0

\* C8: getStats().hitRate is hits / totalQueries, and 0 when totalQueries
\* is 0.
C8_HitRateIsHitsOverQueries ==
    LET hitRate == getStats(stats).hitRate
    IN IF stats.totalQueries = 0 THEN hitRate.num = 0
       ELSE hitRate.num * stats.totalQueries = stats.hits * hitRate.den

\* C18: a cleanup() that returns on an enabled store leaves no entry whose
\* age, at the clock reading cleanup took, is over ttlMs; it has raised
\* evictions by the number of entries it removed; and it leaves the estimate
\* within maxMemoryMB or the store empty. On a disabled store it changes
\* neither the entries nor the statistics.
C18_CleanupPostconditions ==
    [][(Cleanup \/ TimerFire) /\ ~hung' =>
          IF config.enabled
          THEN /\ \A n \in 1..Len(cache') : ~Expired(cache'[n], config, now)
               /\ stats'.evictions = stats.evictions + (Len(cache) - Len(cache'))
               /\ \A n \in 1..Len(cache') : \E m \in 1..Len(cache) : cache'[n] = cache[m]
               /\ estimateMemoryUsage(cache') <= config.maxMemoryMB \/ cache' = <<>>
          ELSE cache' = cache /\ stats' = stats]_vars

\* a cleanup returned after removing entries and leaving others
C18_Witness ==
    /\ ret.op = "cleanup" /\ ret.value # Some(0)
    /\ config.enabled /\ ~hung
    /\ cache # <<>>

\* C20: invalidate(k) removes the entry under k, whatever string k is, and
\* leaves every other entry and the counters hits, misses, evictions and
\* totalQueries as they were; invalidate() removes every entry; afterwards
\* currentEntries is the number of entries that remain.
C20_InvalidateRemovesOnlyItsKey ==
    LET all == invalidate(Store(cache, stats), None)
        counters == {"hits", "misses", "evictions", "totalQueries"}
    IN /\ \A k \in Keys :
             LET s == invalidate(Store(cache, stats), Some(k))
             IN /\ s.cache = Delete(cache, k)
                /\ \A f \in counters : s.stats[f] = stats[f]
                /\ s.stats.currentEntries = Len(s.cache)
       /\ all.cache = <<>>
       /\ \A f \in counters : all.stats[f] = stats[f]
       /\ all.stats.currentEntries = 0

-----------------------------------------------------------------------------
(* Properties of the query layer *)

Returned(i) == calls[i].pc = "done"

\* C5: after a findContactByPhone whose scan of the directory found a
\* contact, a later findContactByPhone for a number that matches one of
\* the contact's phones, looking in the cache within ttlMs with no
\* invalidation or disabling in between, returns the same name from the
\* cache and scans nothing.
C5_SecondSearchIsServedFromCache ==
    \A i, j \in 1..Len(calls) :
        (/\ calls[i].fn = "findContactByPhone" /\ calls[j].fn = "findContactByPhone"
         /\ Returned(i) /\ i \in calls[j].after
         /\ calls[i].result.kind = "name" /\ "scan" \in calls[i].dir
         /\ ~calls[i].cleared /\ ~calls[j].cleared
         /\ now - calls[i].doneAt <= config.ttlMs
         /\ AnyPhoneMatches(PhonesOf(Directory, calls[i].result.value),
                            normalizePhoneNumber(calls[j].arg))
         /\ calls[j].pc # "access")
        => /\ Returned(j)
           /\ calls[j].hit
           /\ calls[j].result = calls[i].result
           /\ "scan" \notin calls[j].dir

\* C9: a call whose access check was denied throws an error that carries
\* the access-denied message; it returns no snapshot, phone list or null.
C9_AccessDeniedIsReported ==
    \A i \in 1..Len(calls) :
        (Returned(i) /\ "denied" \in calls[i].dir)
        => /\ calls[i].result.kind = "error"
           /\ calls[i].result.error[2] = AccessDeniedMessage

\* C10: when the store holds an entry under 'allContacts' that has not
\* expired, getAllNumbers returns its snapshot at once, having asked the
\* directory service for nothing.
C10_CachedContactsNeedNoDirectory ==
    (/\ config.enabled
     /\ Has(cache, AllContactsKey)
     /\ ~Expired(Lookup(cache, AllContactsKey)[1], config, now))
    => LET r == beginGetAllNumbers(NewCall("getAllNumbers", <<>>), Here, config, now)
       IN /\ r.call.pc = "done"
          /\ r.call.doneAt = now
          /\ r.call.result = Data(Lookup(cache, AllContactsKey)[1].data)
          /\ r.call.dir = {}

\* a getAllNumbers has returned the cached snapshot without any request to
\* the directory service, after an earlier call had filled the cache
C10_Witness ==
    \E i \in 1..Len(calls) :
        /\ calls[i].fn = "getAllNumbers"
        /\ Returned(i)
        /\ calls[i].hit
        /\ calls[i].dir = {}
        /\ calls[i].result.kind = "data"
        /\ Len(calls[i].result.value) > 0
        /\ calls[i].after # {}

\* C11: a getAllNumbers that missed the cache asks for the primary
\* enumeration first and for the fallback only when the primary failed or
\* returned nothing; the snapshot it obtains is stored under 'allContacts'
\* exactly when it is not empty (on a disabled store the write is the
\* store's no-op), so no empty snapshot is ever stored; and when both
\* enumerations return nothing getAllNumbers returns an empty snapshot, not
\* an error.
C11_BulkPathOrderAndWrite ==
    [][\A i \in 1..Len(calls), o \in {"ok", "empty", "throw"} :
          LET Stored(d) ==
                  IF d # <<>> /\ config.enabled
                  THEN Lookup(cache', AllContactsKey) = Some(CacheEntry(AllContactsKey, d, now))
                  ELSE cache' = cache
              NoEmptySnapshot == \A n \in 1..Len(cache') : cache'[n].data # <<>>
          IN /\ ContactsAccessChecked(i, TRUE)
                => calls'[i].dir = calls[i].dir \cup {"primary"} /\ "fallback" \notin calls[i].dir
             /\ ContactsEnumerated(i, o)
                => /\ "primary" \in calls[i].dir /\ "fallback" \notin calls[i].dir
                   /\ ("fallback" \in calls'[i].dir) <=> (o # "ok" \/ JxaEnumerate(Directory) = <<>>)
                   /\ IF "fallback" \in calls'[i].dir THEN ~Returned(i)' /\ cache' = cache
                      ELSE Returned(i)' /\ Stored(JxaEnumerate(Directory))
                   /\ NoEmptySnapshot
             /\ ContactsEnumeratedByScript(i, o)
                => /\ {"primary", "fallback"} \subseteq calls[i].dir
                   /\ Returned(i)'
                   /\ Stored(IF o = "ok" THEN getAllNumbersAppleScript(Directory) ELSE <<>>)
                   /\ NoEmptySnapshot
                   /\ (o = "empty" /\ calls[i].fn = "getAllNumbers")
                      => calls'[i].result = Data(<<>>)]_vars

\* a getAllNumbers has returned the snapshot of the fallback enumeration,
\* asked for after the primary one, and the store holds that snapshot
C11_Witness ==
    \E i \in 1..Len(calls) :
        /\ calls[i].fn = "getAllNumbers"
        /\ Returned(i)
        /\ calls[i].dir = {"access", "primary", "fallback"}
        /\ calls[i].result.kind = "data"
        /\ calls[i].result.value # <<>>
        /\ calls[i].doneAt = now
        /\ Lookup(cache, AllContactsKey)
               = Some(CacheEntry(AllContactsKey, calls[i].result.value, now))

\* C12: a findContactByPhone never asks the directory service for a bulk
\* enumeration, primary or fallback: beside its access check, the only
\* request it makes, and only after missing the cache, is the phone scan.
C12_PhoneSearchNeverEnumerates ==
    /\ \A i \in 1..Len(calls) :
           calls[i].fn = "findContactByPhone"
           => /\ calls[i].dir \subseteq {"access", "denied", "scan"}
              /\ calls[i].hit => "scan" \notin calls[i].dir
    /\ \A p \in PhoneInputs :
           LET r == searchCacheForPhone(
                        Await(NewCall("findContactByPhone", p), "access", "access"),
                        Here, config, now)
           IN /\ r.call.dir \subseteq {"access", "scan"}
              /\ r.call.pc \in {"done", "scan"}

\* a findContactByPhone found the cached snapshot without the number, or
\* found none, and has returned after a phone scan and nothing else
C12_Witness ==
    \E i \in 1..Len(calls) :
        /\ calls[i].fn = "findContactByPhone"
        /\ Returned(i)
        /\ ~calls[i].hit
        /\ calls[i].dir = {"access", "scan"}
        /\ calls[i].after # {}

NamesOf(data) == {data[n].name : n \in 1..Len(data)}

\* C13: when a phone scan result (name, phones) is written back while the
\* store holds a live 'allContacts' snapshot, the snapshot afterwards has
\* the names it had and that name, the name has the new phone list, and
\* every other name has the list it had.
C13_WriteBackMerges ==
    (/\ config.enabled
     /\ Has(cache, AllContactsKey)
     /\ ~Expired(Lookup(cache, AllContactsKey)[1], config, now))
    => \A name \in {Bob, Al}, phones \in {<<PhoneDashed>>, <<PhonePlain>>, <<PhoneOther>>} :
           LET before == Lookup(cache, AllContactsKey)[1].data
               s == cachePhoneSearchResult(Here, config, name, phones, now)
               after == Lookup(s.cache, AllContactsKey)
           IN /\ after # None
              /\ NamesOf(after[1].data) = NamesOf(before) \cup {name}
              /\ Len(after[1].data) = Cardinality(NamesOf(before) \cup {name})
              /\ PhonesOf(after[1].data, name) = phones
              /\ \A other \in NamesOf(before) \ {name} :
                     PhonesOf(after[1].data, other) = PhonesOf(before, other)

\* two phone scans for different contacts have returned, the second has
\* just written its contact back, and the snapshot holds both contacts
C13_Witness ==
    \E i, j \in 1..Len(calls) :
        /\ calls[i].fn = "findContactByPhone" /\ calls[j].fn = "findContactByPhone"
        /\ Returned(i) /\ Returned(j)
        /\ "scan" \in calls[i].dir /\ "scan" \in calls[j].dir
        /\ calls[i].result.kind = "name" /\ calls[j].result.kind = "name"
        /\ calls[i].result.value # calls[j].result.value
        /\ calls[j].doneAt = now
        /\ Has(cache, AllContactsKey)
        /\ Lookup(cache, AllContactsKey)[1].timestamp = now
        /\ NamesOf(Lookup(cache, AllContactsKey)[1].data)
               = {calls[i].result.value, calls[j].result.value}

-----------------------------------------------------------------------------
(* Phone resolution: findContactByPhone against a snapshot already cached *)

TenDigits == <<"5", "5", "5", "1", "2", "3", "4", "5", "6", "7">>
PlusOneForm == <<"+", "1">> \o TenDigits
PunctuatedForm ==
    <<"(", "5", "5", "5", ")", " ", "1", "2", "3", "-", "4", "5", "6", "7">>
TenDigitForms == {PlusOneForm, TenDigits, PunctuatedForm}

\* the phone strings of '+', '1' and '5' of one or two characters
ShortNumbers ==
    {<<a>> : a \in {"+", "1", "5"}} \cup {<<a, b>> : a, b \in {"+", "1", "5"}}

\* the numbers a cached contact is stored with, and the numbers searched for
StoredNumbers == TenDigitForms \cup ShortNumbers
SearchedNumbers == TenDigitForms \cup ShortNumbers

\* the number the cached contact is stored with
StoredNumber == Lookup(cache, AllContactsKey)[1].data[1].phones[1]

\* the store after getContactCache() and one set of a snapshot holding one
\* contact, under 'allContacts'
PhoneInit ==
    /\ config = DEFAULT_CONFIG
    /\ \E stored \in StoredNumbers :
           LET s == set(Store(<<>>, InitStats), config,
                        <<Contact(Bob, <<stored>>)>>, AllContactsKey, 0)
           IN cache = s.cache /\ stats = s.stats
    /\ LET tm == startCleanupTimer(Timer(None, {}), config)
       IN cleanupTimer = tm.cleanupTimer /\ timers = tm.timers
    /\ now = 0
    /\ hung = FALSE
    /\ destroyed = FALSE
    /\ ret = Other
    /\ calls = <<>>
    /\ startup = Evaluated

PhoneNext ==
    \/ \E p \in SearchedNumbers : CallFindContactByPhone(p)
    \/ \E i \in 1..Len(calls), granted \in BOOLEAN : PhoneAccessChecked(i, granted)
    \/ \E i \in 1..Len(calls), o \in {"ok", "throw"} : PhoneSearched(i, o)

PhoneSpec == PhoneInit /\ [][PhoneNext]_vars

\* C14: with a contact cached under a ten-digit number in the form +1 and
\* the digits, the bare digits, or the punctuated digits, a
\* findContactByPhone for "+15551234567", "5551234567" or "(555) 123-4567"
\* that has looked in the cache has returned that contact from the cache.
C14_TenDigitFormsResolve ==
    /\ StoredNumber \in TenDigitForms
       => \A i \in 1..Len(calls) :
              (/\ calls[i].arg \in TenDigitForms
               /\ "denied" \notin calls[i].dir
               /\ calls[i].pc # "access")
              => /\ Returned(i)
                 /\ calls[i].hit
                 /\ calls[i].result = Name(Bob)
    /\ \A stored, searched \in TenDigitForms :
           /\ validatePhoneNumber(searched) = Some(searched)
           /\ AnyPhoneMatches(<<stored>>, normalizePhoneNumber(searched))

\* the contact is stored with +1 and the digits, and a search for the
\* punctuated form has returned it from the cache
C14_Witness ==
    /\ StoredNumber = PlusOneForm
    /\ \E i \in 1..Len(calls) :
           /\ calls[i].arg = PunctuatedForm
           /\ Returned(i)
           /\ calls[i].hit
           /\ calls[i].result = Name(Bob)

\* C15: matching is symmetric: a search for p finds a contact stored with
\* n exactly when a search for n finds a contact stored with p.
C15_MatchingIsSymmetric ==
    \A i \in 1..Len(calls) :
        (Returned(i) /\ "denied" \notin calls[i].dir)
        => (calls[i].hit
            <=> AnyPhoneMatches(<<calls[i].arg>>, normalizePhoneNumber(StoredNumber)))

-----------------------------------------------------------------------------
(* The store's lifecycle: construction, reconfiguration, the sweeper and   *)
(* destroy, with sets that give the sweeper entries to sweep               *)

\* a sweeper period other than the one the stores are constructed with
LongInterval == 2

\* the partial configurations handed to updateConfig
LifecyclePatches ==
    {[enabled |-> b] : b \in BOOLEAN} \cup {[cleanupIntervalMs |-> LongInterval]}

\* The life of one store: it is written to, swept, reconfigured and at last
\* destroyed; a destroyed instance is not used again.
LifecycleNext ==
    \/ Tick
    \/ \E x \in SetInputs : Set(x[1], x[2])
    \/ TimerFire
    \/ \E p \in LifecyclePatches : ~destroyed /\ UpdateConfig(p)
    \/ Destroy

\* an armed interval timer keeps firing for as long as the event loop runs
LifecycleSpec == Init /\ [][LifecycleNext]_vars /\ WF_vars(TimerFire)

\* C16: exactly one sweeper timer, the one the store holds the handle of,
\* is armed while the store is enabled and not destroyed, and none is
\* armed otherwise.
C16_OneTimerWhileLive ==
    IF config.enabled /\ ~destroyed
    THEN /\ Cardinality(timers) = 1
         /\ \A x \in timers : cleanupTimer = Some(x.id)
    ELSE timers = {}

\* an enabled store, written to and in use for a while, was destroyed
C16_Witness == destroyed /\ config.enabled /\ stats.evictions > 0

\* no entry is past its time to live, and the estimate is within the
\* memory ceiling unless the store is empty
Swept ==
    /\ \A n \in 1..Len(cache) : ~Expired(cache[n], config, now)
    /\ estimateMemoryUsage(cache) <= config.maxMemoryMB \/ cache = <<>>

\* C17: while the sweeper timer keeps firing, an enabled store is
\* eventually left with no entry older than ttlMs and with an estimate
\* within maxMemoryMB (or empty).
C17_SweeperEventuallySweeps ==
    [](config.enabled /\ ~destroyed => <>Swept)

\* C19: the period of every armed sweeper timer is the cleanupIntervalMs
\* of the current configuration.
C19_TimerPeriodFollowsConfig ==
    \A x \in timers : x.interval = config.cleanupIntervalMs

-----------------------------------------------------------------------------
(* Interleaved calls *)

\* a getAllNumbers call that has returned a snapshot it enumerated itself
Enumerated(c) ==
    /\ c.fn = "getAllNumbers" /\ c.pc = "done" /\ ~c.hit
    /\ c.result.kind = "data" /\ c.result.value # <<>>

-----------------------------------------------------------------------------
(* The memory estimate *)

\* (name, phones) pairs a snapshot can be extended by: a name is any string
\* and a phone list any list of strings
ExtraPairs ==
    {Contact(<<"Z">>, <<>>), Contact(<<>>, <<PhoneOther>>),
     Contact(<<>>, <<>>), Contact(<<>>, <<<<>>>>)}

\* C22: extending the snapshot of an entry by a (name, phones) pair whose
\* name the snapshot does not hold makes the memory estimate strictly
\* greater.
C22_EstimateGrowsWithSnapshot ==
    \A n \in 1..Len(cache), p \in ExtraPairs :
        p.name \notin NamesOf(cache[n].data)
        => estimateMemoryUsage([cache EXCEPT ![n].data = Append(@, p)])
              > estimateMemoryUsage(cache)

\* the characters of a pair: those of its name and of its phone numbers
HasCharacters(p) == p.name # <<>> \/ \E j \in 1..Len(p.phones) : p.phones[j] # <<>>

\* C22, amended: extending the snapshot of an entry by a pair whose name it
\* does not hold never lowers the memory estimate, and raises it exactly
\* when the pair has a character in its name or in one of its phone numbers.
C22_EstimateGrowsWithCharacters ==
    \A n \in 1..Len(cache), p \in ExtraPairs :
        p.name \notin NamesOf(cache[n].data)
        => LET before == estimateMemoryUsage(cache)
               after == estimateMemoryUsage([cache EXCEPT ![n].data = Append(@, p)])
           IN IF HasCharacters(p) THEN after > before ELSE after = before

\* a store with two entries, one of them holding two contacts
C22_Witness ==
    /\ Len(cache) = 2
    /\ \E n \in 1..Len(cache) : cache[n].data = SnapBoth

-----------------------------------------------------------------------------
(* What the cache serves *)

\* C23: a getAllNumbers answered from the cache returns every contact a
\* fresh enumeration would return, and a fuzzy name fallback answered from
\* the cache finds what it would find in a fresh enumeration.
C23_CacheHitsHideNoContact ==
    \A i \in 1..Len(calls) :
        Returned(i) /\ calls[i].hit =>
            /\ calls[i].fn = "getAllNumbers"
               => NamesOf(JxaEnumerate(Directory)) \subseteq NamesOf(calls[i].result.value)
            /\ calls[i].fn = "findNumber"
               => (calls[i].result.value = <<>>)
                     = (fuzzyMatch(JxaEnumerate(Directory), calls[i].arg) = <<>>)

-----------------------------------------------------------------------------
(* Termination of cleanup *)

\* C24: a cleanup() called in any reachable state of an enabled store
\* terminates: its memory loop comes to an end.
C24_CleanupTerminates ==
    config.enabled => enforceMemory(removeExpired(Here, config, now), config, now).ends

-----------------------------------------------------------------------------
(* Invalidation against suspended calls *)

\* C25: when invalidateCache() has just returned and a call that was
\* suspended at its directory-service request all along now completes, no
\* snapshot is stored under 'allContacts': what the call obtained was
\* requested before the invalidation.
C25_NoStaleWriteAfterInvalidation ==
    [][ret.op = "invalidate" =>
          \A i \in 1..Len(calls) :
              calls[i].pc \in {"ga_primary", "ga_fallback", "scan"} /\ Returned(i)'
              => Lookup(cache', AllContactsKey) = None]_vars

-----------------------------------------------------------------------------
(* Stores with room for two entries, under two memory ceilings *)

\* A memory ceiling, in bytes, that a single-contact entry and the names and
\* numbers of a two-contact snapshot fit under, but not the two entries.
TightMemory == 450

\* new ContactCache({maxEntries: 2, ttlMs: ShortTtl}) with the default memory
\* ceiling, which no snapshot of the model comes near, or with a tight one
CeilingInit ==
    /\ config \in {Spread(DEFAULT_CONFIG, [ttlMs |-> ShortTtl, maxEntries |-> 2]),
                   Spread(DEFAULT_CONFIG, [ttlMs |-> ShortTtl, maxEntries |-> 2,
                                           maxMemoryMB |-> TightMemory])}
    /\ cache = <<>>
    /\ stats = InitStats
    /\ LET tm == startCleanupTimer(Timer(None, {}), config)
       IN cleanupTimer = tm.cleanupTimer /\ timers = tm.timers
    /\ now = 0
    /\ hung = FALSE
    /\ destroyed = FALSE
    /\ ret = Other
    /\ calls = <<>>
    /\ startup = Evaluated

CeilingNext ==
    \/ Tick
    \/ \E k \in Keys : Get(k)
    \/ \E x \in SetInputs : Set(x[1], x[2])
    \/ \E k \in {None} \cup {Some(x) : x \in Keys} : Invalidate(k)

CeilingSpec == CeilingInit /\ [][CeilingNext]_vars

\* C26: a set under a key the store already holds, with no eviction due for
\* memory, removes no entry: every key present before is present after.
C26_OverwriteKeepsOtherKeys ==
    [][\A x \in SetInputs :
          Set(x[1], x[2]) /\ Has(cache, x[2]) /\ ~shouldEvictForMemory(cache, config, x[1])
          => KeysOf(cache) \subseteq KeysOf(cache')]_vars

\* C28: a set on an enabled store evicts for memory exactly when the
\* estimate of the store plus the estimate of the incoming snapshot as an
\* entry (its characters and the per-entry overhead) exceeds maxMemoryMB;
\* so a set that evicts nothing leaves the estimate within maxMemoryMB.
\* Taken where an eviction, once called for, finds an entry to remove:
\* every entry was last accessed before now and none is under ''.
C28_SetEvictsWhenEntryWouldNotFit ==
    [][\A x \in SetInputs :
          /\ Set(x[1], x[2]) /\ config.enabled
          /\ \A n \in 1..Len(cache) : cache[n].lastAccessed < now /\ cache[n].key # ""
          => LET due == estimateMemoryUsage(cache) + DataSize(x[1]) + EntryOverhead
                           > config.maxMemoryMB
             IN /\ due => stats'.evictions > stats.evictions
                /\ stats'.evictions = stats.evictions
                   => estimateMemoryUsage(cache') <= config.maxMemoryMB]_vars

-----------------------------------------------------------------------------
(* The age of what the cache serves *)

\* call i has returned and got the record of the contact called name from
\* the directory service: by a phone scan that found that contact, or by an
\* enumeration
Obtained(i, name) ==
    /\ Returned(i)
    /\ \/ /\ calls[i].fn = "findContactByPhone"
          /\ "scan" \in calls[i].dir
          /\ calls[i].result = Name(name)
       \/ /\ calls[i].fn \in {"getAllNumbers", "findNumber"}
          /\ "primary" \in calls[i].dir
          /\ calls[i].result.kind \in {"data", "phones"}

\* C27: every contact record a read of 'allContacts' returns now was got
\* from the directory service at most ttlMs ago.
C27_ServedRecordsAreWithinTtl ==
    LET served == get(Here, config, AllContactsKey, now).value
    IN served # None =>
          \A n \in 1..Len(served[1]) :
              \E i \in 1..Len(calls) :
                  /\ Obtained(i, served[1][n].name)
                  /\ now - calls[i].doneAt <= config.ttlMs

-----------------------------------------------------------------------------
(* The counters *)

\* C29: totalQueries is hits + misses in every state; no step lowers hits,
\* misses, evictions or totalQueries; and a get adds one to totalQueries
\* and one to either hits or misses, not both.
C29_CountersAddUp ==
    /\ [](stats.totalQueries = stats.hits + stats.misses)
    /\ [][/\ \A f \in {"hits", "misses", "evictions", "totalQueries"} : stats'[f] >= stats[f]
          /\ \A k \in Keys :
                Get(k) => /\ stats'.totalQueries = stats.totalQueries + 1
                          /\ \/ stats'.hits = stats.hits + 1 /\ stats'.misses = stats.misses
                             \/ stats'.hits = stats.hits /\ stats'.misses = stats.misses + 1]_vars

\* gets have hit and missed, entries have been evicted, and the store has
\* been destroyed
C29_Witness ==
    /\ stats.hits > 0 /\ stats.misses > 0 /\ stats.evictions > 0
    /\ destroyed

-----------------------------------------------------------------------------
(* Server start-up: the loading timeout against eager loading *)

\* the process at start-up: index.ts evaluated, and a store with the
\* default configuration that start-up does not touch
StartupInit ==
    /\ config = DEFAULT_CONFIG
    /\ cache = <<>>
    /\ stats = InitStats
    /\ LET tm == startCleanupTimer(Timer(None, {}), config)
       IN cleanupTimer = tm.cleanupTimer /\ timers = tm.timers
    /\ now = 0
    /\ hung = FALSE
    /\ destroyed = FALSE
    /\ ret = Other
    /\ calls = <<>>
    /\ startup = Evaluated

\* the loading timeout fires, five seconds after it was armed: the callback
\* switches to safe mode and calls initServer(); it leaves loadingTimeout
\* holding the handle
LoadingTimeout ==
    /\ ~startup.exited
    /\ LoadingTimer \in startup.timeouts
    /\ startup' = initServer(switchToSafeMode(
                      [startup EXCEPT !.timeouts = @ \ {LoadingTimer}]))
    /\ UNCHANGED <<cache, config, stats, cleanupTimer, timers, now, hung, destroyed,
                   ret, calls>>

\* the import attemptEagerLoading awaits resolves: the module is assigned;
\* after the last one the timeout is cleared and initServer() is called
ImportResolved ==
    /\ ~startup.exited
    /\ startup.awaiting \in 1..Len(ModuleNames)
    /\ LET loaded == [startup EXCEPT !.modules[ModuleNames[startup.awaiting]] = TRUE]
       IN startup' = IF startup.awaiting < Len(ModuleNames)
                     THEN [loaded EXCEPT !.awaiting = @ + 1]
                     ELSE initServer(clearLoadingTimeout([loaded EXCEPT !.awaiting = 0]))
    /\ UNCHANGED <<cache, config, stats, cleanupTimer, timers, now, hung, destroyed,
                   ret, calls>>

\* the import attemptEagerLoading awaits rejects: the catch block clears the
\* timeout, switches to safe mode and calls initServer()
ImportRejected ==
    /\ ~startup.exited
    /\ startup.awaiting \in 1..Len(ModuleNames)
    /\ startup' = initServer(switchToSafeMode(clearLoadingTimeout(
                      [startup EXCEPT !.awaiting = 0])))
    /\ UNCHANGED <<cache, config, stats, cleanupTimer, timers, now, hung, destroyed,
                   ret, calls>>

\* server.connect(transport) resolves for the server numbered id
Connected(id) ==
    /\ ~startup.exited
    /\ id \in startup.connecting
    /\ startup' = [startup EXCEPT !.connecting = @ \ {id},
                                  !.connected = @ \cup {id}]
    /\ UNCHANGED <<cache, config, stats, cleanupTimer, timers, now, hung, destroyed,
                   ret, calls>>

\* server.connect(transport) rejects: the catch block calls process.exit(1)
ConnectFailed(id) ==
    /\ ~startup.exited
    /\ id \in startup.connecting
    /\ startup' = [startup EXCEPT !.connecting = @ \ {id}, !.exited = TRUE]
    /\ UNCHANGED <<cache, config, stats, cleanupTimer, timers, now, hung, destroyed,
                   ret, calls>>

StartupNext ==
    \/ LoadingTimeout
    \/ ImportResolved
    \/ ImportRejected
    \/ \E id \in startup.connecting : Connected(id)
    \/ \E id \in startup.connecting : ConnectFailed(id)

StartupSpec == StartupInit /\ [][StartupNext]_vars

\* C30: start-up runs initServer() once at most, however the loading
\* timeout and eager loading interleave, so that no more than one server
\* and one transport are ever created and process.stdout.write is wrapped
\* in one filter; and once eager loading has returned or the timeout has
\* fired, initServer() has run.
C30_InitServerRunsOnce ==
    /\ startup.initServerRuns <= 1
    /\ startup.servers <= 1
    /\ startup.transports <= 1
    /\ startup.stdoutFilters <= 1
    /\ (startup.awaiting = 0 \/ LoadingTimer \notin startup.timeouts)
           => startup.initServerRuns >= 1

====
